---- MODULE Spec2Model ----
(***************************************************************************)
(* Invoice / stock / sales consistency of the business-management server.  *)
(* The state is the relational store (clients, products, invoices,         *)
(* invoice_items, sales and their serial sequences); there is one action   *)
(* per HTTP route of server/routes.ts, each running the DatabaseStorage    *)
(* method the route calls, to completion (Spec, SpecLookup, SpecBody,      *)
(* and SpecStock over a store of two products).  SpecConc serves the       *)
(* invoice routes statement by statement, so that concurrent requests      *)
(* interleave, and SpecFail lets each statement throw; SpecForm is the     *)
(* computation of the totals by the invoice page.                          *)
(***************************************************************************)
EXTENDS Integers, Sequences, FiniteSets, TLC

(***************************************************************************)
(* Bounds of the model.                                                    *)
(***************************************************************************)
MaxClients == 1
MaxProducts == 1
MaxInvoices == 1
MaxItems == 2
MaxSales == 2
MaxStock == 3
MaxRequests == 2

\* Tenants: req.user.id of the authenticated request.
Users == {"A", "B"}

\* SQL NULL of the nullable invoice_items.product_id column.  Serial ids
\* start at 1, so 0 is never a stored id; JavaScript's truthiness test
\* `item.productId` treats null and 0 alike.
NULL == 0

\* Values a request body may carry.  The server puts no range check on any
\* of them (createInsertSchema of an integer column is z.number().int()).
StockInputs == {-1, 3}
Quantities == {-1, 2}
Prices == {100}
StatusInputs == {"en_attente", "payee", "paid", "partiellement_reglee"}

\* The statuses updateInvoice treats as paid: 'payee' and the legacy 'paid'.
PaidStatuses == {"payee", "paid"}

\* A field a partial update body does not carry.
Absent == "absent"
\* The value of `currentInvoice?.status` when getInvoice returned undefined.
Undefined == "undefined"

VARIABLES
    clients,        \* rows of table clients:  [id, userId]
    products,       \* rows of table products: [id, userId, stock]
    invoices,       \* rows of table invoices: [id, userId, clientId, status, totalHT, tvaRate]
    invoiceItems,   \* rows of table invoice_items
    sales,          \* rows of table sales
    serial,         \* next value of each table's serial id sequence
    settleRuns,     \* history: per invoice id, settlements run for a found invoice
    everPaid,       \* history: invoice ids whose persisted status has been paid
    last,           \* the read request just served and its response; Idle after a write
    reqs,           \* per request slot: the request being served step by step, its locals
    stock0,         \* history: per product id, the stock before the slots' requests
    form            \* the invoice form of the page: its data and the totals it sent

vars == <<clients, products, invoices, invoiceItems, sales, serial,
          settleRuns, everPaid, last, reqs, stock0, form>>

tables == <<clients, products, invoices, invoiceItems, sales, serial>>

(***************************************************************************)
(* Helpers over tables.                                                    *)
(***************************************************************************)
Ids(table) == {r.id : r \in table}

\* GREATEST(0, stock - quantity)
Greatest(a, b) == IF a >= b THEN a ELSE b

\* The items a request may carry: productId is null, or any id (an id that
\* names no product row fails the foreign key when the items are inserted).
ItemInputs ==
    [productId : {NULL} \cup (1..MaxProducts), quantity : Quantities, priceHT : Prices]

ItemLists == UNION {[1..n -> ItemInputs] : n \in 0..MaxItems}

\* The line total the invoice form sends with each item.
LineTotal(item) == item.quantity * item.priceHT

\* data.items.reduce((sum, item) => sum + item.quantity * priceHT, 0)
RECURSIVE FormTotalHT(_)
FormTotalHT(items) ==
    IF items = <<>> THEN 0 ELSE LineTotal(Head(items)) + FormTotalHT(Tail(items))

\* The tax rates the invoice form offers (TAX_RATES), in percent.
TaxRates == {3, 5, 10, 15, 18, 21}

\* The rate the modelled form requests carry.
FormRates == {18}

\* The `invoice` part of the body the invoice form sends with `items`: the
\* client and status chosen in the form, the total computed from the items.
FormBodies(items) ==
    [clientId : 1..MaxClients, status : StatusInputs,
     totalHT : {FormTotalHT(items)}, tvaRate : FormRates]

Idle == [op |-> "none", user |-> "none", id |-> 0, code |-> 0]

\* The invoice form before it is filled in.  Amounts are in cents.
NoForm ==
    [items |-> <<>>, tvaRate |-> 0, submitted |-> FALSE,
     totalHT |-> 0, totalTVA |-> 0, totalTTC |-> 0]

\* The request slots, and a slot that serves no request.
Slots == 1..MaxRequests

NoRequest ==
    [op |-> "none", pc |-> "idle", user |-> "none", id |-> 0, status |-> Absent,
     prev |-> Undefined, items |-> <<>>, k |-> 0]

(***************************************************************************)
(* Lookups by id.                                                          *)
(***************************************************************************)
getClient(id, userId) ==
    {c \in clients : c.id = id /\ c.userId = userId}

getProduct(id, userId) ==
    {p \in products : p.id = id /\ p.userId = userId}

getInvoice(id, userId) ==
    {i \in invoices : i.id = id /\ i.userId = userId}

\* getInvoiceWithItems with the tenant filter left out of the WHERE clause.
getInvoiceWithItemsAnyTenant(id, userId) ==
    {[invoice |-> i,
      client |-> {c \in clients : c.id = i.clientId},
      items |-> {it \in invoiceItems : it.invoiceId = id}] :
        i \in {j \in invoices : j.id = id}}

\* The invoice row joined with its client and its items; empty when the
\* invoice row is not found.
getInvoiceWithItems(id, userId) ==
    {[invoice |-> i,
      client |-> {c \in clients : c.id = i.clientId},
      items |-> {it \in invoiceItems : it.invoiceId = id}] :
        i \in {j \in invoices : j.id = id /\ j.userId = userId}}

Init ==
    /\ clients = {}
    /\ products = {}
    /\ invoices = {}
    /\ invoiceItems = {}
    /\ sales = {}
    /\ serial = [clients |-> 1, products |-> 1, invoices |-> 1, items |-> 1, sales |-> 1]
    /\ settleRuns = [i \in 1..MaxInvoices |-> 0]
    /\ everPaid = {}
    /\ last = Idle
    /\ reqs = [r \in Slots |-> NoRequest]
    /\ stock0 = [p \in 1..MaxProducts |-> 0]
    /\ form = NoForm

(***************************************************************************)
(* Clients and products.                                                   *)
(***************************************************************************)
\* POST /api/clients
createClient(u) ==
    /\ serial.clients <= MaxClients
    /\ clients' = clients \cup {[id |-> serial.clients, userId |-> u]}
    /\ serial' = [serial EXCEPT !.clients = @ + 1]
    /\ last' = Idle
    /\ UNCHANGED <<reqs, stock0, form>>
    /\ UNCHANGED <<products, invoices, invoiceItems, sales, settleRuns, everPaid>>

\* POST /api/products: the body's stock is stored as sent.
createProduct(u, stock) ==
    /\ serial.products <= MaxProducts
    /\ products' = products \cup {[id |-> serial.products, userId |-> u, stock |-> stock]}
    /\ serial' = [serial EXCEPT !.products = @ + 1]
    /\ last' = Idle
    /\ UNCHANGED <<reqs, stock0, form>>
    /\ UNCHANGED <<clients, invoices, invoiceItems, sales, settleRuns, everPaid>>

\* PUT /api/products/:id with a body carrying stock; the WHERE clause filters
\* by id and userId, and the route answers 200 whether or not a row matched.
updateProduct(u, id, stock) ==
    /\ products' = {IF p.id = id /\ p.userId = u THEN [p EXCEPT !.stock = stock] ELSE p :
                        p \in products}
    /\ last' = Idle
    /\ UNCHANGED <<reqs, stock0, form>>
    /\ UNCHANGED <<clients, invoices, invoiceItems, sales, serial, settleRuns, everPaid>>

(***************************************************************************)
(* Stock.                                                                  *)
(***************************************************************************)
\* The decrement as a read followed by a write: the new stock is computed
\* from the stock read when the request arrived, not from the stored one.
DecrementStockRead(prods, productId, quantity, userId) ==
    {IF p.id = productId /\ p.userId = userId
        THEN [p EXCEPT !.stock = Greatest(0, stock0[p.id] - quantity)]
        ELSE p : p \in prods}

\* UPDATE products SET stock = GREATEST(0, stock - quantity)
\*   WHERE id = productId AND user_id = userId
DecrementStock(prods, productId, quantity, userId) ==
    {IF p.id = productId /\ p.userId = userId
        THEN [p EXCEPT !.stock = Greatest(0, p.stock - quantity)]
        ELSE p : p \in prods}

\* The loop stopped after the first item: the decrement of a subset.
updateStockForFirstItem(prods, items, userId) ==
    IF items = <<>> THEN prods
    ELSE LET item == Head(items)
         IN  IF item.productId # NULL
                 THEN DecrementStock(prods, item.productId, item.quantity, userId)
                 ELSE prods

\* The loop over items.filter(item => item.productId), in list order.
RECURSIVE updateStockAfterInvoiceCreation(_, _, _)
updateStockAfterInvoiceCreation(prods, items, userId) ==
    IF items = <<>> THEN prods
    ELSE LET item == Head(items)
         IN  updateStockAfterInvoiceCreation(
                 IF item.productId # NULL
                     THEN DecrementStock(prods, item.productId, item.quantity, userId)
                     ELSE prods,
                 Tail(items), userId)

WithinStock(prods) == \A p \in prods : p.stock <= MaxStock

(***************************************************************************)
(* Invoices.                                                               *)
(***************************************************************************)
\* items.map(item => ({...item, invoiceId})) as inserted: serial ids in
\* list order, the line total as the invoice form sends it.
ItemsWithInvoiceId(items, invoiceId) ==
    [k \in 1..Len(items) |->
        [id |-> serial.items + k - 1,
         invoiceId |-> invoiceId,
         productId |-> items[k].productId,
         quantity |-> items[k].quantity,
         priceHT |-> items[k].priceHT,
         totalHT |-> LineTotal(items[k])]]

Range(seq) == {seq[k] : k \in 1..Len(seq)}

\* POST /api/invoices -> DatabaseStorage.createInvoice.  The three writes are
\* separate statements with no transaction: a foreign-key failure of the
\* items insert leaves the invoice row inserted, without items.
createInvoice(u, invoice, items) ==
    /\ serial.invoices <= MaxInvoices
    /\ LET id == serial.invoices
           clientId == invoice.clientId
           status == invoice.status
           newInvoice == [id |-> id, userId |-> u, clientId |-> clientId, status |-> status,
                          totalHT |-> invoice.totalHT, tvaRate |-> invoice.tvaRate]
           rows == ItemsWithInvoiceId(items, id)
           itemsOk == \A k \in 1..Len(items) :
                         items[k].productId = NULL \/ items[k].productId \in Ids(products)
       IN  IF clientId \notin Ids(clients)
           THEN \* the insert violates invoices.client_id's foreign key
                UNCHANGED vars
           ELSE /\ invoices' = invoices \cup {newInvoice}
                /\ everPaid' = IF status \in PaidStatuses THEN everPaid \cup {id} ELSE everPaid
                /\ IF Len(items) > 0 /\ itemsOk
                   THEN /\ invoiceItems' = invoiceItems \cup Range(rows)
                        /\ products' = updateStockAfterInvoiceCreation(products, rows, u)
                        /\ WithinStock(products')
                        /\ serial' = [serial EXCEPT !.invoices = @ + 1, !.items = @ + Len(items)]
                   ELSE \* no items, or the items insert violates product_id's foreign key
                        /\ serial' = [serial EXCEPT !.invoices = @ + 1]
                        /\ UNCHANGED <<invoiceItems, products>>
                /\ last' = Idle
                /\ UNCHANGED <<reqs, stock0, form>>
                /\ UNCHANGED <<clients, sales, settleRuns>>

\* All orders in which a SELECT without ORDER BY may return a set of rows.
Orders(rows) ==
    {f \in [1..Cardinality(rows) -> rows] : \A r \in rows : \E k \in DOMAIN f : f[k] = r}

\* SalesData with the productId filter left out: a sale for every item.
SalesDataUnfiltered(items, invoiceId, userId) ==
    [k \in 1..Len(items) |->
        [invoiceId |-> invoiceId,
         productId |-> items[k].productId,
         quantity |-> items[k].quantity,
         unitPrice |-> items[k].priceHT,
         total |-> items[k].totalHT,
         userId |-> userId]]

\* SalesData with each sale given the tenant of its product instead of the
\* tenant of the request.
SalesDataOfProductOwner(items, invoiceId, userId) ==
    LET HasProduct(item) == item.productId # NULL
        kept == SelectSeq(items, HasProduct)
    IN  [k \in 1..Len(kept) |->
            [invoiceId |-> invoiceId,
             productId |-> kept[k].productId,
             quantity |-> kept[k].quantity,
             unitPrice |-> kept[k].priceHT,
             total |-> kept[k].totalHT,
             userId |-> (CHOOSE p \in products : p.id = kept[k].productId).userId]]

\* items.filter(item => item.productId).map(item => ({...}))
SalesData(items, invoiceId, userId) ==
    LET HasProduct(item) == item.productId # NULL
        kept == SelectSeq(items, HasProduct)
    IN  [k \in 1..Len(kept) |->
            [invoiceId |-> invoiceId,
             productId |-> kept[k].productId,
             quantity |-> kept[k].quantity,
             unitPrice |-> kept[k].priceHT,
             total |-> kept[k].totalHT,
             userId |-> userId]]

\* The stock loop of createSalesFromInvoice.
RECURSIVE SettleStock(_, _, _)
SettleStock(prods, items, userId) ==
    IF items = <<>> THEN prods
    ELSE LET item == Head(items)
         IN  SettleStock(
                 IF item.productId # NULL
                     THEN DecrementStock(prods, item.productId, item.quantity, userId)
                     ELSE prods,
                 Tail(items), userId)

\* createSalesFromInvoice replacing the sales the invoice already has.
createSalesFromInvoiceReplacing(invoiceId, userId, items) ==
    LET salesData == SalesData(items, invoiceId, userId)
    IN  IF Len(salesData) > 0
        THEN /\ serial.sales + Len(salesData) - 1 <= MaxSales
             /\ sales' = {s \in sales : s.invoiceId # invoiceId} \cup
                    {[id |-> serial.sales + k - 1,
                      invoiceId |-> salesData[k].invoiceId,
                      productId |-> salesData[k].productId,
                      quantity |-> salesData[k].quantity,
                      unitPrice |-> salesData[k].unitPrice,
                      total |-> salesData[k].total,
                      userId |-> salesData[k].userId] : k \in 1..Len(salesData)}
             /\ serial' = [serial EXCEPT !.sales = @ + Len(salesData)]
             /\ products' = SettleStock(products, items, userId)
             /\ WithinStock(products')
        ELSE UNCHANGED <<sales, serial, products>>

\* DatabaseStorage.createSalesFromInvoice, the items selected in order `items`.
createSalesFromInvoice(invoiceId, userId, items) ==
    LET salesData == SalesData(items, invoiceId, userId)
    IN  IF Len(salesData) > 0
        THEN /\ serial.sales + Len(salesData) - 1 <= MaxSales
             /\ sales' = sales \cup
                    {[id |-> serial.sales + k - 1,
                      invoiceId |-> salesData[k].invoiceId,
                      productId |-> salesData[k].productId,
                      quantity |-> salesData[k].quantity,
                      unitPrice |-> salesData[k].unitPrice,
                      total |-> salesData[k].total,
                      userId |-> salesData[k].userId] : k \in 1..Len(salesData)}
             /\ serial' = [serial EXCEPT !.sales = @ + Len(salesData)]
             /\ products' = SettleStock(products, items, userId)
             /\ WithinStock(products')
        ELSE UNCHANGED <<sales, serial, products>>

\* The guard with the test of the requested status left out.
PreviousStatusNotPaid(status, prev) ==
    prev # "payee" /\ prev # "paid"

\* The guard of updateInvoice: the requested status is a paid one and the
\* status read before the update is not.
StatusChangedToPaid(status, prev) ==
    (status = "payee" \/ status = "paid") /\ prev # "payee" /\ prev # "paid"

\* The partial bodies PUT /api/invoices/:id accepts, over the modelled
\* columns status, userId and totalHT (insertInvoiceSchema.partial() keeps
\* userId).  The empty body is left out: drizzle rejects an update with no
\* values.  totalHT is the set of the amounts the body carries, none or one;
\* these bodies carry none, as the bundled pages send none.
Patches ==
    [status : StatusInputs \cup {Absent}, userId : Users \cup {Absent}, totalHT : {{}}]
        \ {[status |-> Absent, userId |-> Absent, totalHT |-> {}]}

\* PUT /api/invoices/:id -> DatabaseStorage.updateInvoice
updateInvoice(u, id, patch) ==
    LET currentInvoice == getInvoice(id, u)
        prev == IF currentInvoice = {} THEN Undefined
                ELSE (CHOOSE i \in currentInvoice : TRUE).status
        settles == StatusChangedToPaid(patch.status, prev)
        rows == {it \in invoiceItems : it.invoiceId = id}
    IN  /\ invoices' =
               {IF i.id = id /\ i.userId = u
                   THEN [i EXCEPT !.status = IF patch.status = Absent THEN @ ELSE patch.status,
                                  !.userId = IF patch.userId = Absent THEN @ ELSE patch.userId,
                                  !.totalHT = IF patch.totalHT = {} THEN @
                                              ELSE CHOOSE t \in patch.totalHT : TRUE]
                   ELSE i : i \in invoices}
        /\ IF settles
           THEN \E items \in Orders(rows) :
                    /\ createSalesFromInvoice(id, u, items)
                    /\ settleRuns' =
                           IF prev # Undefined /\ Len(SalesData(items, id, u)) > 0
                               THEN [settleRuns EXCEPT ![id] = @ + 1]
                               ELSE settleRuns
           ELSE UNCHANGED <<sales, serial, products, settleRuns>>
        /\ everPaid' = IF prev # Undefined /\ patch.status \in PaidStatuses
                          THEN everPaid \cup {id} ELSE everPaid
        /\ last' = Idle
        /\ UNCHANGED <<reqs, stock0, form>>
        /\ UNCHANGED <<clients, invoiceItems>>

\* deleteInvoice with the delete of the invoice's sales left out.
deleteInvoiceKeepingSales(u, id) ==
    /\ invoiceItems' = {it \in invoiceItems : it.invoiceId # id}
    /\ invoices' = {i \in invoices : ~(i.id = id /\ i.userId = u)}
    /\ last' = Idle
    /\ UNCHANGED <<reqs, stock0, form>>
    /\ UNCHANGED <<clients, products, sales, serial, settleRuns, everPaid>>

\* deleteInvoice with the quantities of the deleted items put back in stock.
deleteInvoiceRestoringStock(u, id) ==
    /\ sales' = {s \in sales : s.invoiceId # id}
    /\ invoiceItems' = {it \in invoiceItems : it.invoiceId # id}
    /\ invoices' = {i \in invoices : ~(i.id = id /\ i.userId = u)}
    /\ products' = {IF \E it \in invoiceItems : it.invoiceId = id /\ it.productId = p.id
                        THEN [p EXCEPT !.stock = @ + 1] ELSE p : p \in products}
    /\ last' = Idle
    /\ UNCHANGED <<reqs, stock0, form>>
    /\ UNCHANGED <<clients, serial, settleRuns, everPaid>>

\* DELETE /api/invoices/:id -> DatabaseStorage.deleteInvoice
deleteInvoice(u, id) ==
    /\ sales' = {s \in sales : s.invoiceId # id}
    /\ invoiceItems' = {it \in invoiceItems : it.invoiceId # id}
    /\ invoices' = {i \in invoices : ~(i.id = id /\ i.userId = u)}
    /\ last' = Idle
    /\ UNCHANGED <<reqs, stock0, form>>
    /\ UNCHANGED <<clients, products, serial, settleRuns, everPaid>>

(***************************************************************************)
(* Read routes: 404 when the lookup finds no row.                          *)
(***************************************************************************)
NotFoundOr200(found) == IF found = {} THEN 404 ELSE 200

\* GET /api/clients/:id
getClientRoute(u, id) ==
    /\ last' = [op |-> "getClient", user |-> u, id |-> id, code |-> NotFoundOr200(getClient(id, u))]
    /\ UNCHANGED <<tables, settleRuns, everPaid, reqs, stock0, form>>

\* GET /api/products/:id
getProductRoute(u, id) ==
    /\ last' = [op |-> "getProduct", user |-> u, id |-> id, code |-> NotFoundOr200(getProduct(id, u))]
    /\ UNCHANGED <<tables, settleRuns, everPaid, reqs, stock0, form>>

\* GET /api/invoices/:id
getInvoiceRoute(u, id) ==
    /\ last' = [op |-> "getInvoiceWithItems", user |-> u, id |-> id,
                 code |-> NotFoundOr200(getInvoiceWithItems(id, u))]
    /\ UNCHANGED <<tables, settleRuns, everPaid, reqs, stock0, form>>

Next ==
    \/ \E u \in Users : createClient(u)
    \/ \E u \in Users, stock \in StockInputs : createProduct(u, stock)
    \/ \E u \in Users, id \in 1..MaxProducts, stock \in StockInputs : updateProduct(u, id, stock)
    \/ \E u \in Users, items \in ItemLists :
           \E invoice \in FormBodies(items) : createInvoice(u, invoice, items)
    \/ \E u \in Users, id \in 1..MaxInvoices, patch \in Patches : updateInvoice(u, id, patch)
    \/ \E u \in Users, id \in 1..MaxInvoices : deleteInvoice(u, id)

Spec == Init /\ [][Next]_vars

\* The write routes together with the read routes.
NextLookup ==
    \/ Next
    \/ \E u \in Users, id \in 1..MaxClients : getClientRoute(u, id)
    \/ \E u \in Users, id \in 1..MaxProducts : getProductRoute(u, id)
    \/ \E u \in Users, id \in 1..MaxInvoices : getInvoiceRoute(u, id)

SpecLookup == Init /\ [][NextLookup]_vars

(***************************************************************************)
(* The same routes over request bodies the bundled pages never send but    *)
(* the routes' zod schemas accept: a status outside INVOICE_STATUS, a      *)
(* quantity of 0, a negative price, a tax rate outside TAX_RATES, totals   *)
(* unrelated to the items.                                                 *)
(***************************************************************************)
BodyStatuses == {"en_attente", "payee", "annulee"}
BodyQuantities == {0, 1}
BodyPrices == {-100, 100}
BodyRates == {18, 20}
BodyTotals == {0}
BodyStocks == {2}

BodyItemInputs ==
    [productId : {NULL} \cup (1..MaxProducts), quantity : BodyQuantities, priceHT : BodyPrices]

BodyItemLists == UNION {[1..n -> BodyItemInputs] : n \in 0..MaxItems}

\* The `invoice` part of a POST /api/invoices body.
Bodies ==
    [clientId : 1..MaxClients, status : BodyStatuses, totalHT : BodyTotals, tvaRate : BodyRates]

\* The bodies of PUT /api/invoices/:id.
BodyPatches ==
    [status : BodyStatuses \cup {Absent}, userId : {Absent},
     totalHT : {{}} \cup {{t} : t \in BodyTotals}]
        \ {[status |-> Absent, userId |-> Absent, totalHT |-> {}]}

NextBody ==
    \/ \E u \in Users : createClient(u)
    \/ \E u \in Users, stock \in BodyStocks : createProduct(u, stock)
    \/ \E u \in Users, id \in 1..MaxProducts, stock \in BodyStocks : updateProduct(u, id, stock)
    \/ \E u \in Users, invoice \in Bodies, items \in BodyItemLists :
           createInvoice(u, invoice, items)
    \/ \E u \in Users, id \in 1..MaxInvoices, patch \in BodyPatches : updateInvoice(u, id, patch)
    \/ \E u \in Users, id \in 1..MaxInvoices : deleteInvoice(u, id)

SpecBody == Init /\ [][NextBody]_vars

(***************************************************************************)
(* The invoice routes served statement by statement.  Every `await` on the *)
(* database is one step, and the steps of the requests in the slots        *)
(* interleave; a statement is atomic, and no method opens a transaction.   *)
(* A statement that violates a foreign key throws: the request ends        *)
(* ("failed") and the writes it made before stay.                          *)
(***************************************************************************)
ConcStatuses == {"en_attente", "payee"}
ConcQuantities == {1, 2}
ConcStocks == {1, MaxStock}

ConcItemInputs ==
    [productId : {NULL} \cup (1..MaxProducts), quantity : ConcQuantities, priceHT : Prices]

ConcItemLists == UNION {[1..n -> ConcItemInputs] : n \in 1..MaxItems}

\* The store before the requests arrive: tenant A's client and product, and
\* either no invoice or A's pending invoice 1 with its items, as the form
\* creates it.
InitConc ==
    \E stock \in ConcStocks, items \in ConcItemLists, stored \in BOOLEAN :
        /\ clients = {[id |-> 1, userId |-> "A"]}
        /\ products = {[id |-> 1, userId |-> "A", stock |-> stock]}
        /\ invoices =
               IF stored
                   THEN {[id |-> 1, userId |-> "A", clientId |-> 1, status |-> "en_attente",
                          totalHT |-> FormTotalHT(items),
                          tvaRate |-> CHOOSE rate \in FormRates : TRUE]}
                   ELSE {}
        /\ invoiceItems =
               IF stored
                   THEN {[id |-> k, invoiceId |-> 1,
                          productId |-> items[k].productId,
                          quantity |-> items[k].quantity,
                          priceHT |-> items[k].priceHT,
                          totalHT |-> LineTotal(items[k])] : k \in 1..Len(items)}
                   ELSE {}
        /\ sales = {}
        /\ serial = [clients |-> 2, products |-> 2,
                     invoices |-> IF stored THEN 2 ELSE 1,
                     items |-> IF stored THEN Len(items) + 1 ELSE 1,
                     sales |-> 1]
        /\ settleRuns = [i \in 1..MaxInvoices |-> 0]
        /\ everPaid = {}
        /\ last = Idle
        /\ reqs = [r \in Slots |-> NoRequest]
        /\ stock0 = [p \in 1..MaxProducts |-> stock]
        /\ form = NoForm

\* POST /api/invoices arrives: the body as the invoice form sends it.
receiveCreateInvoice(r, u, clientId, status, items) ==
    /\ reqs[r].pc = "idle"
    /\ reqs' = [reqs EXCEPT ![r] =
                   [NoRequest EXCEPT !.op = "createInvoice", !.pc = "insertInvoice",
                                     !.user = u, !.id = clientId, !.status = status,
                                     !.items = items]]
    /\ UNCHANGED <<tables, settleRuns, everPaid, last, stock0, form>>

\* PUT /api/invoices/:id arrives with the body {status}.
receiveUpdateInvoice(r, u, id, status) ==
    /\ reqs[r].pc = "idle"
    /\ reqs' = [reqs EXCEPT ![r] =
                   [NoRequest EXCEPT !.op = "updateInvoice", !.pc = "getInvoice",
                                     !.user = u, !.id = id, !.status = status]]
    /\ UNCHANGED <<tables, settleRuns, everPaid, last, stock0, form>>

\* DELETE /api/invoices/:id arrives.
receiveDeleteInvoice(r, u, id) ==
    /\ reqs[r].pc = "idle"
    /\ reqs' = [reqs EXCEPT ![r] =
                   [NoRequest EXCEPT !.op = "deleteInvoice", !.pc = "deleteSales",
                                     !.user = u, !.id = id]]
    /\ UNCHANGED <<tables, settleRuns, everPaid, last, stock0, form>>

\* items.filter(item => item.productId): the items the stock loops run over.
Catalog(items) ==
    LET HasProduct(item) == item.productId # NULL
    IN  SelectSeq(items, HasProduct)

\* createInvoice: db.insert(invoices).values(invoice).returning().  Until
\* the row is inserted the slot's id holds the body's clientId.
createInvoice_insertInvoice(r) ==
    LET q == reqs[r]
        id == serial.invoices
    IN  /\ q.op = "createInvoice" /\ q.pc = "insertInvoice"
        /\ serial.invoices <= MaxInvoices
        /\ IF q.id \notin Ids(clients)
           THEN /\ reqs' = [reqs EXCEPT ![r].pc = "failed"]
                /\ UNCHANGED <<invoices, serial, everPaid>>
           ELSE /\ invoices' = invoices \cup
                       {[id |-> id, userId |-> q.user, clientId |-> q.id, status |-> q.status,
                         totalHT |-> FormTotalHT(q.items),
                         tvaRate |-> CHOOSE rate \in FormRates : TRUE]}
                /\ serial' = [serial EXCEPT !.invoices = @ + 1]
                /\ everPaid' = IF q.status \in PaidStatuses THEN everPaid \cup {id} ELSE everPaid
                /\ reqs' = [reqs EXCEPT ![r].id = id,
                                        ![r].pc = IF Len(q.items) > 0 THEN "insertItems" ELSE "done"]
        /\ UNCHANGED <<clients, products, invoiceItems, sales, settleRuns, last, stock0, form>>

\* createInvoice: db.insert(invoiceItems).values(itemsWithInvoiceId)
createInvoice_insertItems(r) ==
    LET q == reqs[r]
        rows == ItemsWithInvoiceId(q.items, q.id)
        itemsOk == \A k \in 1..Len(q.items) :
                      q.items[k].productId = NULL \/ q.items[k].productId \in Ids(products)
    IN  /\ q.op = "createInvoice" /\ q.pc = "insertItems"
        /\ IF q.id \notin Ids(invoices) \/ ~itemsOk
           THEN /\ reqs' = [reqs EXCEPT ![r].pc = "failed"]
                /\ UNCHANGED <<invoiceItems, serial>>
           ELSE /\ invoiceItems' = invoiceItems \cup Range(rows)
                /\ serial' = [serial EXCEPT !.items = @ + Len(q.items)]
                /\ reqs' = [reqs EXCEPT ![r].items = rows, ![r].k = 1,
                                        ![r].pc = IF Catalog(rows) # <<>> THEN "creationStock"
                                                                         ELSE "done"]
        /\ UNCHANGED <<clients, products, invoices, sales, settleRuns, everPaid, last, stock0, form>>

\* One iteration of the loop of updateStockAfterInvoiceCreation.
updateStockAfterInvoiceCreation_update(r) ==
    LET q == reqs[r]
        item == Catalog(q.items)[q.k]
    IN  /\ q.op = "createInvoice" /\ q.pc = "creationStock"
        /\ products' = DecrementStock(products, item.productId, item.quantity, q.user)
        /\ reqs' = [reqs EXCEPT ![r].k = @ + 1,
                                ![r].pc = IF q.k = Len(Catalog(q.items)) THEN "done"
                                                                          ELSE "creationStock"]
        /\ UNCHANGED <<clients, invoices, invoiceItems, sales, serial, settleRuns, everPaid,
                       last, stock0, form>>

\* updateInvoice: const currentInvoice = await this.getInvoice(id, userId)
updateInvoice_getInvoice(r) ==
    LET q == reqs[r]
        currentInvoice == getInvoice(q.id, q.user)
    IN  /\ q.op = "updateInvoice" /\ q.pc = "getInvoice"
        /\ reqs' = [reqs EXCEPT ![r].prev = IF currentInvoice = {} THEN Undefined
                                            ELSE (CHOOSE i \in currentInvoice : TRUE).status,
                                ![r].pc = "update"]
        /\ UNCHANGED <<tables, settleRuns, everPaid, last, stock0, form>>

\* The UPDATE of updateInvoice with the guard made part of the statement: it
\* tests the status the row holds when the UPDATE runs.
updateInvoice_updateIfNotPaid(r) ==
    LET q == reqs[r]
        stored == getInvoice(q.id, q.user)
        prev == IF stored = {} THEN Undefined ELSE (CHOOSE i \in stored : TRUE).status
    IN  /\ q.op = "updateInvoice" /\ q.pc = "update"
        /\ invoices' = {IF i.id = q.id /\ i.userId = q.user
                           THEN [i EXCEPT !.status = q.status] ELSE i : i \in invoices}
        /\ everPaid' = IF stored # {} /\ q.status \in PaidStatuses
                          THEN everPaid \cup {q.id} ELSE everPaid
        /\ reqs' = [reqs EXCEPT ![r].pc = IF StatusChangedToPaid(q.status, prev)
                                             THEN "selectItems" ELSE "done"]
        /\ UNCHANGED <<clients, products, invoiceItems, sales, serial, settleRuns, last, stock0, form>>

\* updateInvoice: the UPDATE of the invoice row, then the guard, evaluated on
\* the status read by the earlier getInvoice.
updateInvoice_update(r) ==
    LET q == reqs[r]
    IN  /\ q.op = "updateInvoice" /\ q.pc = "update"
        /\ invoices' = {IF i.id = q.id /\ i.userId = q.user
                           THEN [i EXCEPT !.status = q.status] ELSE i : i \in invoices}
        /\ everPaid' = IF getInvoice(q.id, q.user) # {} /\ q.status \in PaidStatuses
                          THEN everPaid \cup {q.id} ELSE everPaid
        /\ reqs' = [reqs EXCEPT ![r].pc = IF StatusChangedToPaid(q.status, q.prev)
                                             THEN "selectItems" ELSE "done"]
        /\ UNCHANGED <<clients, products, invoiceItems, sales, serial, settleRuns, last, stock0, form>>

\* createSalesFromInvoice: the SELECT of the invoice's items.
createSalesFromInvoice_select(r) ==
    LET q == reqs[r]
    IN  /\ q.op = "updateInvoice" /\ q.pc = "selectItems"
        /\ \E items \in Orders({it \in invoiceItems : it.invoiceId = q.id}) :
               reqs' = [reqs EXCEPT ![r].items = items,
                                    ![r].pc = IF Len(SalesData(items, q.id, q.user)) > 0
                                                 THEN "insertSales" ELSE "done"]
        /\ UNCHANGED <<tables, settleRuns, everPaid, last, stock0, form>>

\* No foreign key of sales.invoice_id and invoice_items.invoice_id: an
\* invoice row is never seen as referenced.
NeverReferenced(id) == FALSE

\* Some sale or invoice item references invoice id: the foreign keys of
\* sales.invoice_id and invoice_items.invoice_id forbid deleting the row.
Referenced(id) ==
    \/ \E s \in sales : s.invoiceId = id
    \/ \E it \in invoiceItems : it.invoiceId = id

\* createSalesFromInvoice: db.insert(sales).values(salesData)
createSalesFromInvoice_insert(r) ==
    LET q == reqs[r]
        salesData == SalesData(q.items, q.id, q.user)
    IN  /\ q.op = "updateInvoice" /\ q.pc = "insertSales"
        /\ IF q.id \notin Ids(invoices)
           THEN /\ reqs' = [reqs EXCEPT ![r].pc = "failed"]
                /\ UNCHANGED <<sales, serial, settleRuns>>
           ELSE /\ serial.sales + Len(salesData) - 1 <= MaxSales
                /\ sales' = sales \cup
                       {[id |-> serial.sales + k - 1,
                         invoiceId |-> salesData[k].invoiceId,
                         productId |-> salesData[k].productId,
                         quantity |-> salesData[k].quantity,
                         unitPrice |-> salesData[k].unitPrice,
                         total |-> salesData[k].total,
                         userId |-> salesData[k].userId] : k \in 1..Len(salesData)}
                /\ serial' = [serial EXCEPT !.sales = @ + Len(salesData)]
                /\ settleRuns' = IF q.prev # Undefined
                                    THEN [settleRuns EXCEPT ![q.id] = @ + 1] ELSE settleRuns
                /\ reqs' = [reqs EXCEPT ![r].k = 1, ![r].pc = "settleStock"]
        /\ UNCHANGED <<clients, products, invoices, invoiceItems, everPaid, last, stock0, form>>

\* One iteration of the stock loop of createSalesFromInvoice.
createSalesFromInvoice_update(r) ==
    LET q == reqs[r]
        item == Catalog(q.items)[q.k]
    IN  /\ q.op = "updateInvoice" /\ q.pc = "settleStock"
        /\ products' = DecrementStock(products, item.productId, item.quantity, q.user)
        /\ reqs' = [reqs EXCEPT ![r].k = @ + 1,
                                ![r].pc = IF q.k = Len(Catalog(q.items)) THEN "done"
                                                                          ELSE "settleStock"]
        /\ UNCHANGED <<clients, invoices, invoiceItems, sales, serial, settleRuns, everPaid,
                       last, stock0, form>>

\* deleteInvoice: db.delete(sales).where(eq(sales.invoiceId, id))
deleteInvoice_sales(r) ==
    LET q == reqs[r]
    IN  /\ q.op = "deleteInvoice" /\ q.pc = "deleteSales"
        /\ sales' = {s \in sales : s.invoiceId # q.id}
        /\ reqs' = [reqs EXCEPT ![r].pc = "deleteItems"]
        /\ UNCHANGED <<clients, products, invoices, invoiceItems, serial, settleRuns, everPaid,
                       last, stock0, form>>

\* deleteInvoice: db.delete(invoiceItems).where(eq(invoiceItems.invoiceId, id))
deleteInvoice_items(r) ==
    LET q == reqs[r]
    IN  /\ q.op = "deleteInvoice" /\ q.pc = "deleteItems"
        /\ invoiceItems' = {it \in invoiceItems : it.invoiceId # q.id}
        /\ reqs' = [reqs EXCEPT ![r].pc = "deleteInvoice"]
        /\ UNCHANGED <<clients, products, invoices, sales, serial, settleRuns, everPaid,
                       last, stock0, form>>

\* deleteInvoice: db.delete(invoices).where(id and userId); the statement
\* fails when it would delete a row that a sale or an item references.
deleteInvoice_invoice(r) ==
    LET q == reqs[r]
    IN  /\ q.op = "deleteInvoice" /\ q.pc = "deleteInvoice"
        /\ IF getInvoice(q.id, q.user) # {} /\ Referenced(q.id)
           THEN /\ reqs' = [reqs EXCEPT ![r].pc = "failed"]
                /\ UNCHANGED invoices
           ELSE /\ invoices' = {i \in invoices : ~(i.id = q.id /\ i.userId = q.user)}
                /\ reqs' = [reqs EXCEPT ![r].pc = "done"]
        /\ UNCHANGED <<clients, products, invoiceItems, sales, serial, settleRuns, everPaid,
                       last, stock0, form>>

NextConc ==
    \/ \E r \in Slots, u \in Users, c \in 1..MaxClients, st \in ConcStatuses,
          items \in ConcItemLists : receiveCreateInvoice(r, u, c, st, items)
    \/ \E r \in Slots, u \in Users, id \in 1..MaxInvoices, st \in ConcStatuses :
           receiveUpdateInvoice(r, u, id, st)
    \/ \E r \in Slots, u \in Users, id \in 1..MaxInvoices : receiveDeleteInvoice(r, u, id)
    \/ \E r \in Slots : createInvoice_insertInvoice(r)
    \/ \E r \in Slots : createInvoice_insertItems(r)
    \/ \E r \in Slots : updateStockAfterInvoiceCreation_update(r)
    \/ \E r \in Slots : updateInvoice_getInvoice(r)
    \/ \E r \in Slots : updateInvoice_update(r)
    \/ \E r \in Slots : createSalesFromInvoice_select(r)
    \/ \E r \in Slots : createSalesFromInvoice_insert(r)
    \/ \E r \in Slots : createSalesFromInvoice_update(r)
    \/ \E r \in Slots : deleteInvoice_sales(r)
    \/ \E r \in Slots : deleteInvoice_items(r)
    \/ \E r \in Slots : deleteInvoice_invoice(r)

SpecConc == InitConc /\ [][NextConc]_vars

(***************************************************************************)
(* The same statements where any of them may also throw (the database      *)
(* rejects it, the connection drops).  The route's catch block answers     *)
(* with an error; the storage methods hold no transaction to roll back.    *)
(***************************************************************************)
InFlight(r) == reqs[r].pc \notin {"idle", "done", "failed"}

\* An invoice row the request inserted, and its items, removed again when a
\* later statement of the request throws.
statementFailsRollingBack(r) ==
    LET q == reqs[r]
        inserted == q.op = "createInvoice" /\ q.pc \in {"insertItems", "creationStock"}
    IN  /\ InFlight(r)
        /\ reqs' = [reqs EXCEPT ![r].pc = "failed"]
        /\ invoices' = IF inserted THEN {i \in invoices : i.id # q.id} ELSE invoices
        /\ invoiceItems' = IF inserted THEN {it \in invoiceItems : it.invoiceId # q.id}
                                       ELSE invoiceItems
        /\ UNCHANGED <<clients, products, sales, serial, settleRuns, everPaid, last, stock0, form>>

\* The statement the request is about to run throws: the method's promise
\* rejects and the route's catch answers 400 (POST, PUT) or 500 (DELETE).
statementFails(r) ==
    /\ InFlight(r)
    /\ reqs' = [reqs EXCEPT ![r].pc = "failed"]
    /\ UNCHANGED <<tables, settleRuns, everPaid, last, stock0, form>>

\* Tenant A's client and product, and either no invoice or A's pending
\* invoice 1 with one item.
InitFail ==
    \E items \in ConcItemLists, stored \in BOOLEAN :
        /\ Len(items) = 1
        /\ clients = {[id |-> 1, userId |-> "A"]}
        /\ products = {[id |-> 1, userId |-> "A", stock |-> MaxStock]}
        /\ invoices =
               IF stored
                   THEN {[id |-> 1, userId |-> "A", clientId |-> 1, status |-> "en_attente",
                          totalHT |-> FormTotalHT(items),
                          tvaRate |-> CHOOSE rate \in FormRates : TRUE]}
                   ELSE {}
        /\ invoiceItems =
               IF stored
                   THEN {[id |-> k, invoiceId |-> 1,
                          productId |-> items[k].productId,
                          quantity |-> items[k].quantity,
                          priceHT |-> items[k].priceHT,
                          totalHT |-> LineTotal(items[k])] : k \in 1..Len(items)}
                   ELSE {}
        /\ sales = {}
        /\ serial = [clients |-> 2, products |-> 2,
                     invoices |-> IF stored THEN 2 ELSE 1,
                     items |-> IF stored THEN Len(items) + 1 ELSE 1,
                     sales |-> 1]
        /\ settleRuns = [i \in 1..MaxInvoices |-> 0]
        /\ everPaid = {}
        /\ last = Idle
        /\ reqs = [r \in Slots |-> NoRequest]
        /\ stock0 = [p \in 1..MaxProducts |-> MaxStock]
        /\ form = NoForm

NextFail ==
    \/ NextConc
    \/ \E r \in Slots : statementFails(r)

SpecFail == InitFail /\ [][NextFail]_vars

(***************************************************************************)
(* The invoice routes over a store that holds two products, so that an     *)
(* invoice can name one product twice, or one product and not the other.   *)
(***************************************************************************)
CatalogIds == {1, 2}
ShelfStocks == {2, 3}
OrderQuantities == {1, 5}

OrderItemInputs ==
    [productId : {NULL} \cup CatalogIds, quantity : OrderQuantities, priceHT : Prices]

OrderItemLists == UNION {[1..n -> OrderItemInputs] : n \in 0..MaxItems}

\* Tenant A's client and product 1, and a product 2 of either tenant.
InitStock ==
    \E s1 \in ShelfStocks, s2 \in ShelfStocks, owner \in Users :
        /\ clients = {[id |-> 1, userId |-> "A"]}
        /\ products = {[id |-> 1, userId |-> "A", stock |-> s1],
                       [id |-> 2, userId |-> owner, stock |-> s2]}
        /\ invoices = {}
        /\ invoiceItems = {}
        /\ sales = {}
        /\ serial = [clients |-> 2, products |-> 3, invoices |-> 1, items |-> 1, sales |-> 1]
        /\ settleRuns = [i \in 1..MaxInvoices |-> 0]
        /\ everPaid = {}
        /\ last = Idle
        /\ reqs = [r \in Slots |-> NoRequest]
        /\ stock0 = [p \in CatalogIds |-> IF p = 1 THEN s1 ELSE s2]
        /\ form = NoForm

NextStock ==
    \/ \E u \in Users, items \in OrderItemLists :
           \E invoice \in FormBodies(items) : createInvoice(u, invoice, items)
    \/ \E u \in Users, id \in 1..MaxInvoices, patch \in Patches : updateInvoice(u, id, patch)
    \/ \E u \in Users, id \in 1..MaxInvoices : deleteInvoice(u, id)

SpecStock == InitStock /\ [][NextStock]_vars

(***************************************************************************)
(* The totals of the invoice form.  createMutation computes them with      *)
(* JavaScript numbers (IEEE 754 binary64: 53 significant bits, round to    *)
(* nearest, ties to even) and sends each as toFixed(2).  A natural number  *)
(* is a sequence of digits in base 2^15, least significant first, so that  *)
(* no intermediate result exceeds 31 bits; a JavaScript number x >= 0 is   *)
(* the record [n, s] with x = n / 2^s, n of at most 53 bits.  Amounts sent *)
(* are in cents: "0.10" is 10.                                             *)
(***************************************************************************)
MantissaBits == 53
DigitBits == 15
Base == 2^DigitBits

RECURSIVE Digits(_)
Digits(k) == IF k = 0 THEN <<>> ELSE <<k % Base>> \o Digits(k \div Base)

RECURSIVE Value(_)
Value(b) == IF b = <<>> THEN 0 ELSE b[1] + Base * Value(Tail(b))

\* b without its leading (most significant) zeros.
RECURSIVE Trim(_)
Trim(b) == IF b = <<>> \/ b[Len(b)] # 0 THEN b ELSE Trim(SubSeq(b, 1, Len(b) - 1))

Digit(b, j) == IF j \in 1..Len(b) THEN b[j] ELSE 0

\* The digits from position j on of a + b + carry.
RECURSIVE AddFrom(_, _, _, _)
AddFrom(a, b, j, carry) ==
    IF j > Len(a) /\ j > Len(b)
        THEN (IF carry = 0 THEN <<>> ELSE <<carry>>)
        ELSE LET sum == Digit(a, j) + Digit(b, j) + carry
             IN  <<sum % Base>> \o AddFrom(a, b, j + 1, sum \div Base)

Add(a, b) == AddFrom(a, b, 1, 0)

\* The digits from position j on of a * k + carry, for a digit k.
RECURSIVE MulDigitFrom(_, _, _, _)
MulDigitFrom(a, k, j, carry) ==
    IF j > Len(a)
        THEN (IF carry = 0 THEN <<>> ELSE <<carry>>)
        ELSE LET cur == a[j] * k + carry
             IN  <<cur % Base>> \o MulDigitFrom(a, k, j + 1, cur \div Base)

MulDigit(a, k) == IF k = 0 THEN <<>> ELSE MulDigitFrom(a, k, 1, 0)

\* a times the number made of the digits of b from position j on.
RECURSIVE MulFrom(_, _, _)
MulFrom(a, b, j) ==
    IF j > Len(b) THEN <<>>
    ELSE LET high == MulFrom(a, b, j + 1)
         IN  Add(MulDigit(a, b[j]), IF high = <<>> THEN <<>> ELSE <<0>> \o high)

Mul(a, b) == MulFrom(a, b, 1)

\* Quotient and remainder of the digits of a from position j on by d, for
\* 0 < d <= Base.
RECURSIVE DivFrom(_, _, _)
DivFrom(a, d, j) ==
    IF j > Len(a) THEN [q |-> <<>>, r |-> 0]
    ELSE LET high == DivFrom(a, d, j + 1)
             cur == Base * high.r + a[j]
         IN  [q |-> <<cur \div d>> \o high.q, r |-> cur % d]

\* a * 2^s and the integer part of a / 2^s.
ShiftLeft(a, s) ==
    IF a = <<>> THEN <<>>
    ELSE [j \in 1..(s \div DigitBits) |-> 0] \o MulDigit(a, 2^(s % DigitBits))

ShiftRight(a, s) ==
    IF Len(a) <= s \div DigitBits THEN <<>>
    ELSE Trim(DivFrom(SubSeq(a, s \div DigitBits + 1, Len(a)), 2^(s % DigitBits), 1).q)

\* The number of bits of a digit, and of a number.
RECURSIVE DigitLength(_)
DigitLength(k) == IF k = 0 THEN 0 ELSE 1 + DigitLength(k \div 2)

BitLength(a) ==
    IF a = <<>> THEN 0 ELSE DigitBits * (Len(a) - 1) + DigitLength(a[Len(a)])

\* Bit j of a, the least significant being bit 1.
BitAt(a, j) == (Digit(a, (j - 1) \div DigitBits + 1) \div 2^((j - 1) % DigitBits)) % 2

\* Some of the s least significant bits of a is set.
LowBitsSet(a, s) ==
    \/ \E j \in 1..(s \div DigitBits) : Digit(a, j) # 0
    \/ Digit(a, s \div DigitBits + 1) % 2^(s % DigitBits) # 0

\* The binary64 number nearest to n / 2^s (plus a positive amount below one
\* unit of n when `inexact`), ties to even.
Round(n, s, inexact) ==
    LET drop == BitLength(n) - MantissaBits
        kept == ShiftRight(n, drop)
        sticky == inexact \/ LowBitsSet(n, drop - 1)
        up == BitAt(n, drop) = 1 /\ (sticky \/ kept[1] % 2 = 1)
    IN  IF drop <= 0 THEN [n |-> n, s |-> s]
        ELSE [n |-> IF up THEN Add(kept, <<1>>) ELSE kept, s |-> s - drop]

\* The number of an integer k with 0 <= k < 2^31.
Number(k) == [n |-> Digits(k), s |-> 0]

\* a / d for integers a >= 0 and 0 < d <= 100, correctly rounded: the
\* quotient is taken to at least 54 bits, the remainder makes it inexact.
Divide(a, d) ==
    LET qr == DivFrom(ShiftLeft(Digits(a), MantissaBits + 7), d, 1)
    IN  IF a = 0 THEN Number(0) ELSE Round(Trim(qr.q), MantissaBits + 7, qr.r # 0)

\* x * y and x + y of JavaScript numbers.
Times(x, y) == Round(Mul(x.n, y.n), x.s + y.s, FALSE)

Plus(x, y) ==
    LET s == IF x.s >= y.s THEN x.s ELSE y.s
    IN  Round(Add(ShiftLeft(x.n, s - x.s), ShiftLeft(y.n, s - y.s)), s, FALSE)

\* parseFloat of a decimal string with two decimals, given in cents.
parseFloat(cents) == Divide(cents, 100)

\* x.toFixed(2), in cents: the integer c with c / 100 nearest to x, the
\* larger one on a tie.
toFixed(x) ==
    Value(ShiftRight(Add(MulDigit(x.n, 200), ShiftLeft(<<1>>, x.s)), x.s + 1))

\* data.items.reduce((sum, item) => sum + item.quantity * parseFloat(item.priceHT), 0)
RECURSIVE ReduceFrom(_, _, _)
ReduceFrom(items, j, sum) ==
    IF j > Len(items) THEN sum
    ELSE ReduceFrom(items, j + 1,
             Plus(sum, Times(Number(items[j].quantity), parseFloat(items[j].priceHT))))

\* What the form holds when it is submitted: quantities >= 1, prices in
\* whole cents, one of the offered tax rates.
FormQuantities == {1, 2, 3}
FormPrices == {5, 25, 50000, 100000}

FormItemLists ==
    UNION {[1..n -> [quantity : FormQuantities, priceHT : FormPrices]] : n \in 1..MaxItems}

InitForm ==
    /\ clients = {}
    /\ products = {}
    /\ invoices = {}
    /\ invoiceItems = {}
    /\ sales = {}
    /\ serial = [clients |-> 1, products |-> 1, invoices |-> 1, items |-> 1, sales |-> 1]
    /\ settleRuns = [i \in 1..MaxInvoices |-> 0]
    /\ everPaid = {}
    /\ last = Idle
    /\ reqs = [r \in Slots |-> NoRequest]
    /\ stock0 = [p \in 1..MaxProducts |-> 0]
    /\ \E items \in FormItemLists, rate \in TaxRates :
           form = [NoForm EXCEPT !.items = items, !.tvaRate = rate]

\* createMutation.mutationFn: the totals of invoiceData.
createMutation ==
    LET totalHT == ReduceFrom(form.items, 1, Number(0))
        tvaRateNum == form.tvaRate
        totalTVA == Times(totalHT, Divide(tvaRateNum, 100))
        totalTTC == Plus(totalHT, totalTVA)
    IN  /\ ~ form.submitted
        /\ form.items # <<>>
        /\ form' = [form EXCEPT !.submitted = TRUE,
                                !.totalHT = toFixed(totalHT),
                                !.totalTVA = toFixed(totalTVA),
                                !.totalTTC = toFixed(totalTTC)]
        /\ UNCHANGED <<tables, settleRuns, everPaid, last, reqs, stock0>>

NextForm == createMutation

SpecForm == InitForm /\ [][NextForm]_vars

(***************************************************************************)
(* Properties.                                                             *)
(***************************************************************************)
InvoiceIds == 1..MaxInvoices

ItemsOf(id) == {it \in invoiceItems : it.invoiceId = id}

CatalogItems(id) == {it \in ItemsOf(id) : it.productId # NULL}

SalesOf(id) == {s \in sales : s.invoiceId = id}

\* The stored data is as the product and invoice forms send it: no negative
\* stock, every quantity at least 1.  C1, C2, C6, C7, C8 and C9 are stated
\* for such data, so that a violation does not rest on an out-of-range input.
WellFormed ==
    /\ \A p \in products : p.stock >= 0
    /\ \A it \in invoiceItems : it.quantity >= 1

\* Some updateInvoice request with a paid status for invoice id is served.
PaidUpdate(u, id) ==
    \E patch \in Patches : patch.status \in PaidStatuses /\ updateInvoice(u, id, patch)

\* C1: over any sequence of updateInvoice calls on one invoice, paid ->
\* pending -> paid round trips included, the settlement side effects run at
\* most once per invoice.  (settleRuns counts the runs of
\* createSalesFromInvoice that inserted sales for an invoice its caller
\* found, i.e. the owner's.)
C1_SettlesAtMostOnce == WellFormed => \A id \in InvoiceIds : settleRuns[id] <= 1

\* C2: updateInvoice with a paid status on an invoice whose persisted status
\* is already paid leaves the Sale rows and every product's stock as they
\* were.
C2_PaidOnPaidIsNoOp ==
    [][\A u \in Users, id \in InvoiceIds :
          (/\ PaidUpdate(u, id)
           /\ \E i \in invoices : i.id = id /\ i.status \in PaidStatuses
           /\ WellFormed)
              => (sales' = sales /\ products' = products)]_vars

\* The same for the invoice's owner only: the guard of updateInvoice.
C2_OwnerPaidOnPaidIsNoOp ==
    [][\A u \in Users, id \in InvoiceIds :
          (PaidUpdate(u, id) /\ \E i \in getInvoice(id, u) : i.status \in PaidStatuses)
              => (sales' = sales /\ products' = products)]_vars

\* Sale s copies invoice item it of invoice id.
CopiesItem(s, it, id) ==
    /\ s.invoiceId = id
    /\ s.productId = it.productId
    /\ s.quantity = it.quantity
    /\ s.unitPrice = it.priceHT
    /\ s.total = it.totalHT

\* The Sale rows `created` are one per catalog item of invoice id, none else.
OneSalePerCatalogItem(id, created) ==
    /\ Cardinality(created) = Cardinality(CatalogItems(id))
    /\ \E f \in [CatalogItems(id) -> created] :
          /\ \A a, b \in CatalogItems(id) : a # b => f[a] # f[b]
          /\ \A it \in CatalogItems(id) : CopiesItem(f[it], it, id)

\* C3: when the owner's updateInvoice moves an invoice from a status that is
\* not paid to a paid one, the Sale rows it creates are exactly one per
\* invoice item with a non-null productId, and none for an item whose
\* productId is null.
C3_OneSalePerCatalogItem ==
    [][\A u \in Users, id \in InvoiceIds :
          (PaidUpdate(u, id) /\ \E i \in getInvoice(id, u) : i.status \notin PaidStatuses)
              => OneSalePerCatalogItem(id, sales' \ sales)]_vars

\* A paid invoice, settled once, that has a catalog item and an ad-hoc item,
\* and one Sale per catalog item.
C3_Witness ==
    \E i \in invoices :
        /\ i.status \in PaidStatuses
        /\ settleRuns[i.id] = 1
        /\ \E it \in ItemsOf(i.id) : it.productId = NULL
        /\ CatalogItems(i.id) # {}
        /\ Cardinality(SalesOf(i.id)) = Cardinality(CatalogItems(i.id))

\* C4: in every reachable state every product's stock is >= 0.
C4_StockNeverNegative == \A p \in products : p.stock >= 0

\* Some createInvoice request is served.
CreateInvoiceStep ==
    \E u \in Users, items \in ItemLists :
        \E invoice \in FormBodies(items) : createInvoice(u, invoice, items)

\* Some updateInvoice request is served.
UpdateInvoiceStep ==
    \E u \in Users, id \in InvoiceIds, patch \in Patches : updateInvoice(u, id, patch)

\* C5: the stock decrement performed by createInvoice or by settlement never
\* increases a product's stock, whatever quantity the accepted items carry
\* (stated for stored stock that is not negative).
C5_DecrementNeverIncreases ==
    [][((CreateInvoiceStep \/ UpdateInvoiceStep) /\ \A p \in products : p.stock >= 0)
          => \A p \in products : \A q \in products' : q.id = p.id => q.stock <= p.stock]_vars

\* C6: creating an invoice leaves every product's stock unchanged.
C6_CreateLeavesStock ==
    [][(CreateInvoiceStep /\ WellFormed /\ WellFormed') => products' = products]_vars

\* C7: a Sale for an invoice item exists if and only if the invoice's
\* persisted status has been paid while the item, with a non-null productId,
\* was present (items exist from the creation of their invoice on).
C7_SaleIffEverPaid ==
    WellFormed => \A it \in invoiceItems :
        it.productId # NULL =>
            (it.invoiceId \in everPaid
                <=> \E s \in sales : CopiesItem(s, it, it.invoiceId))

\* C8: deleteInvoice called by a tenant with the id of another tenant's
\* invoice leaves that invoice, its InvoiceItems and its Sales unchanged.
C8_DeleteFiltersByTenant ==
    [][\A u \in Users, id \in InvoiceIds :
          (deleteInvoice(u, id) /\ WellFormed /\ \E i \in invoices : i.id = id /\ i.userId # u)
              => (sales' = sales /\ invoiceItems' = invoiceItems /\ invoices' = invoices)]_vars

\* C9: updateInvoice with a paid status for an invoice id that does not
\* exist or is owned by another tenant creates no Sale row and changes no
\* product's stock.
C9_NotFoundHasNoSideEffect ==
    [][\A u \in Users, id \in InvoiceIds :
          (PaidUpdate(u, id) /\ getInvoice(id, u) = {} /\ WellFormed)
              => (sales' = sales /\ products' = products)]_vars

\* C10: a lookup by id of a client, product or invoice made by a tenant that
\* does not own a row with that id is answered 404, whether the row belongs
\* to another tenant or does not exist; getInvoice finds no row either.
C10_ForeignLookupNotFound ==
    /\ (last.op = "getClient" /\ ~ \E c \in clients : c.id = last.id /\ c.userId = last.user)
          => last.code = 404
    /\ (last.op = "getProduct" /\ ~ \E p \in products : p.id = last.id /\ p.userId = last.user)
          => last.code = 404
    /\ (last.op = "getInvoiceWithItems"
            /\ ~ \E i \in invoices : i.id = last.id /\ i.userId = last.user)
          => last.code = 404
    /\ \A i \in invoices : \A u \in Users \ {i.userId} : getInvoice(i.id, u) = {}

\* A tenant has just looked up an invoice that exists and is another's.
C10_Witness ==
    /\ last.op = "getInvoiceWithItems"
    /\ last.code = 404
    /\ \E i \in invoices : i.id = last.id /\ i.userId # last.user

\* C11: after deleteInvoice of invoice X by X's owner, no Sale and no
\* InvoiceItem references X and the invoice row X no longer exists.
C11_OwnerDeleteRemovesAll ==
    [][\A u \in Users, id \in InvoiceIds :
          (deleteInvoice(u, id) /\ getInvoice(id, u) # {})
              => /\ \A s \in sales' : s.invoiceId # id
                 /\ \A it \in invoiceItems' : it.invoiceId # id
                 /\ \A i \in invoices' : i.id # id]_vars

\* An invoice was created with items, settled into sales, and is gone with
\* all its rows.
C11_Witness ==
    /\ serial.invoices > 1 /\ serial.items > 1 /\ serial.sales > 1
    /\ invoices = {} /\ invoiceItems = {} /\ sales = {}

\* C19: every persisted invoice references a client owned by the invoice's
\* tenant, and getInvoiceWithItems returns no client record of a tenant
\* other than its caller.
C19_ClientOfSameTenant ==
    /\ \A i \in invoices : \A c \in clients : c.id = i.clientId => c.userId = i.userId
    /\ \A u \in Users, id \in InvoiceIds :
          \A r \in getInvoiceWithItems(id, u) : \A c \in r.client : c.userId = u

\* C20: an updateInvoice call whose new status is not a paid value (a revert
\* of paid to pending, a move to partially settled, or a body carrying no
\* status) changes only the invoice row: the Sale rows and every product's
\* stock are unchanged, as are the items and the clients.
C20_NonPaidUpdateChangesOnlyInvoice ==
    [][\A u \in Users, id \in InvoiceIds, patch \in Patches :
          (updateInvoice(u, id, patch) /\ patch.status \notin PaidStatuses)
              => /\ sales' = sales
                 /\ products' = products
                 /\ invoiceItems' = invoiceItems
                 /\ clients' = clients]_vars

\* An invoice that was paid and settled is pending again, its sales kept and
\* the stock not restored.
C20_Witness ==
    \E i \in invoices :
        /\ i.status = "en_attente"
        /\ i.id \in everPaid
        /\ settleRuns[i.id] = 1
        /\ SalesOf(i.id) # {}
        /\ \E p \in products : p.stock < 3
        /\ WellFormed

\* The statuses the application knows: INVOICE_STATUS and the legacy 'paid'.
KnownStatuses == StatusInputs

\* C15: an updateInvoice request whose status is not one of the known status
\* values is rejected before anything is persisted: the invoice rows, the
\* Sale rows and all stock are unchanged.
C15_UnknownStatusRejected ==
    [][\A u \in Users, id \in InvoiceIds, patch \in BodyPatches :
          (updateInvoice(u, id, patch) /\ patch.status \notin KnownStatuses \cup {Absent})
              => (invoices' = invoices /\ sales' = sales /\ products' = products)]_vars

\* The conditions under which C16 has a create-invoice request rejected.
InvalidCreate(invoice, items) ==
    \/ items = <<>>
    \/ \E k \in 1..Len(items) : items[k].quantity < 1
    \/ \E k \in 1..Len(items) : items[k].priceHT < 0
    \/ invoice.tvaRate \notin TaxRates

\* C16: a create-invoice request whose item list is empty, or that has an
\* item quantity < 1 or a negative unit price, or whose tax rate is not one
\* of 3, 5, 10, 15, 18, 21, persists no invoice, no item and no stock change.
C16_InvalidCreateRejected ==
    [][\A u \in Users, invoice \in Bodies, items \in BodyItemLists :
          (createInvoice(u, invoice, items) /\ InvalidCreate(invoice, items))
              => (invoices' = invoices /\ invoiceItems' = invoiceItems
                    /\ products' = products)]_vars

RECURSIVE SumTotalHT(_)
SumTotalHT(rows) ==
    IF rows = {} THEN 0
    ELSE LET r == CHOOSE x \in rows : TRUE IN r.totalHT + SumTotalHT(rows \ {r})

\* C17: in every reachable state each persisted invoice's totalHT equals the
\* sum of the totalHT of its invoice items (stated for invoices that have
\* items, each of quantity >= 1 and of a price >= 0).
C17_TotalIsSumOfItems ==
    \A i \in invoices :
        (/\ ItemsOf(i.id) # {}
         /\ \A it \in ItemsOf(i.id) : it.quantity >= 1 /\ it.priceHT >= 0)
            => i.totalHT = SumTotalHT(ItemsOf(i.id))

\* C12: deleteInvoice removes the Sales, then the InvoiceItems, then the
\* Invoice, and in every intermediate state of a deletion, also when it
\* interleaves with a concurrent updateInvoice settling the same invoice, no
\* Sale and no InvoiceItem references an invoice that no longer exists.
C12_NoRowOfDeletedInvoice ==
    /\ \A s \in sales : s.invoiceId \in Ids(invoices)
    /\ \A it \in invoiceItems : it.invoiceId \in Ids(invoices)

\* A deletion that has deleted the sales and the items of an invoice while a
\* concurrent updateInvoice of the same invoice has inserted its sales since.
C12_Witness ==
    \E d, s \in Slots :
        /\ reqs[d].op = "deleteInvoice" /\ reqs[d].pc = "deleteInvoice"
        /\ reqs[s].op = "updateInvoice" /\ reqs[s].id = reqs[d].id
        /\ reqs[s].pc = "settleStock"
        /\ SalesOf(reqs[d].id) # {}
        /\ ItemsOf(reqs[d].id) = {}

\* The quantity by which the stock statements the request in slot r has run
\* so far decrement product p: its loop has passed the first k - 1 items.
RECURSIVE DecrementedUpTo(_, _, _)
DecrementedUpTo(r, p, n) ==
    IF n <= 0 THEN 0
    ELSE LET item == Catalog(reqs[r].items)[n]
         IN  DecrementedUpTo(r, p, n - 1)
                + (IF item.productId = p.id /\ reqs[r].user = p.userId THEN item.quantity ELSE 0)

Decremented(r, p) == DecrementedUpTo(r, p, reqs[r].k - 1)

RECURSIVE DecrementedBySlots(_, _)
DecrementedBySlots(n, p) ==
    IF n = 0 THEN 0 ELSE Decremented(n, p) + DecrementedBySlots(n - 1, p)

\* C13: concurrent requests that decrement the same product's stock by a and
\* b never lose an update: in every interleaving the stock is
\* max(0, s - a - b), s the stock before the requests, once both have run
\* their decrements, and likewise for the decrements run so far.
C13_NoLostDecrement ==
    \A p \in products :
        p.stock = Greatest(0, stock0[p.id] - DecrementedBySlots(MaxRequests, p))

\* Two requests have each decremented the same product, and stock is left.
C13_Witness ==
    \E p \in products :
        /\ \A r \in Slots : reqs[r].pc = "done" /\ Decremented(r, p) > 0
        /\ \E r \in Slots : reqs[r].op = "createInvoice"
        /\ \E r \in Slots : reqs[r].op = "updateInvoice"
        /\ p.stock > 0

\* The requests in slots a and b are two updateInvoice requests of the owner
\* of invoice id, both setting a paid status, both having read a previous
\* status that is not paid, both served to the end.
BothPassedGuard(a, b, id) ==
    /\ a # b
    /\ \A r \in {a, b} :
          /\ reqs[r].op = "updateInvoice" /\ reqs[r].id = id
          /\ reqs[r].status \in PaidStatuses
          /\ reqs[r].prev \notin PaidStatuses \cup {Undefined}
          /\ reqs[r].pc = "done"

\* The quantity of product p on the catalog items of invoice id.
RECURSIVE QuantityOf(_, _)
QuantityOf(rows, p) ==
    IF rows = {} THEN 0
    ELSE LET it == CHOOSE x \in rows : TRUE
         IN  (IF it.productId = p.id THEN it.quantity ELSE 0) + QuantityOf(rows \ {it}, p)

\* C14: when two concurrent updateInvoice requests set a paid status on the
\* same pending invoice and both read the previous status as not paid, both
\* pass the guard and both run settlement: two Sale rows per catalog item
\* and a double stock decrement are left.  (The witness is the interleaving
\* the claim says exists.)
C14_BothSettle ==
    \A a, b \in Slots, id \in InvoiceIds :
        BothPassedGuard(a, b, id)
            => /\ Cardinality(SalesOf(id)) = 2 * Cardinality(CatalogItems(id))
               /\ \A it \in CatalogItems(id) :
                     Cardinality({s \in SalesOf(id) : CopiesItem(s, it, id)}) >= 2
               /\ CatalogItems(id) # {} => settleRuns[id] = 2
               /\ \A p \in products :
                     p.userId = reqs[a].user =>
                        p.stock = Greatest(0, stock0[p.id] - 2 * QuantityOf(CatalogItems(id), p))

\* Both requests read "en_attente", both settled: a catalog item with two
\* Sale rows, the stock decremented twice.
C14_Witness ==
    \E a, b \in Slots, id \in InvoiceIds :
        /\ BothPassedGuard(a, b, id)
        /\ CatalogItems(id) # {}
        /\ Cardinality(SalesOf(id)) = 2
        /\ \E p \in products : p.stock = stock0[p.id] - 2 /\ QuantityOf(CatalogItems(id), p) = 1

\* The exact total of the form's items, in cents.
RECURSIVE ExactTotalHT(_)
ExactTotalHT(items) ==
    IF items = <<>> THEN 0
    ELSE Head(items).quantity * Head(items).priceHT + ExactTotalHT(Tail(items))

\* C18: for every list of items with integer quantity >= 1 and a price in
\* whole cents, and every allowed tax rate, the totals the invoice form
\* sends satisfy: totalHT is the sum of the lines, totalTVA is
\* totalHT x rate / 100 rounded to cents (to either neighbour on a tie), and
\* totalTTC = totalHT + totalTVA exactly in cents.
C18_FormTotalsConsistent ==
    form.submitted =>
        /\ form.totalHT = ExactTotalHT(form.items)
        /\ 100 * form.totalTVA - form.totalHT * form.tvaRate \in -50..50
        /\ form.totalTTC = form.totalHT + form.totalTVA

\* C21: deleteInvoice leaves every product's stock unchanged: the stock
\* decremented for the invoice's items is not restored by deleting it.
C21_DeleteLeavesStock ==
    [][\A u \in Users, id \in InvoiceIds : deleteInvoice(u, id) => products' = products]_vars

\* An invoice whose item lowered the stock from 3 to 1 has been deleted, and
\* the stock is still 1.
C21_Witness ==
    /\ invoices = {}
    /\ invoiceItems = {}
    /\ serial.invoices > 1
    /\ serial.items > 1
    /\ \E p \in products : p.stock = 1

\* C22: once a Sale row exists no operation changes any of its fields, and
\* the row disappears only through a deleteInvoice of the invoice it names.
C22_SalesImmutable ==
    [][\A s \in sales :
          \/ s \in sales'
          \/ /\ \A t \in sales' : t.id # s.id
             /\ \E u \in Users : deleteInvoice(u, s.invoiceId)]_vars

\* A sale is still stored after its invoice went back to pending and its
\* product was restocked.
C22_Witness ==
    \E s \in sales :
        /\ \E i \in invoices : i.id = s.invoiceId /\ i.status = "en_attente"
        /\ \E p \in products : p.id = s.productId /\ p.stock = 3
        /\ s.quantity = 2

\* C23: invoice creation is atomic with respect to its items: no reader
\* (getInvoiceWithItems) and no failure path observes an invoice submitted
\* with a non-empty item list but stored without items.
C23_CreationAtomic ==
    \A r \in Slots :
        LET q == reqs[r]
        IN  (q.op = "createInvoice" /\ q.pc \in {"insertItems", "failed"} /\ Len(q.items) > 0)
                => \A u \in Users : \A found \in getInvoiceWithItems(q.id, u) :
                       found.items # {}

\* C24: each Sale row created by a settlement copies an item of the invoice:
\* quantity, unitPrice = priceHT, total = totalHT, productId, the invoice's
\* id, and as userId the tenant that requested the update.
C24_SaleCopiesItem ==
    [][\A s \in sales' \ sales :
          /\ \E it \in ItemsOf(s.invoiceId) : CopiesItem(s, it, s.invoiceId)
          /\ \E patch \in Patches : updateInvoice(s.userId, s.invoiceId, patch)]_vars

\* A sale of quantity 2 at 100, total 200, copied from an item of tenant A's
\* invoice by a settlement that tenant B requested.
C24_Witness ==
    \E s \in sales, it \in invoiceItems :
        /\ CopiesItem(s, it, it.invoiceId)
        /\ s.quantity = 2 /\ s.unitPrice = 100 /\ s.total = 200
        /\ s.userId = "B"
        /\ \E i \in invoices : i.id = s.invoiceId /\ i.userId = "A"

\* The stock of every product of tenant u is lowered by the quantities of the
\* rows that name it, clamped at 0; every other product keeps its stock.
LoweredBy(u, rows) ==
    /\ Ids(products') = Ids(products)
    /\ \A p \in products : \E q \in products' :
          /\ q.id = p.id
          /\ q.userId = p.userId
          /\ q.stock = IF p.userId = u THEN Greatest(0, p.stock - QuantityOf(rows, p))
                                       ELSE p.stock

\* C25: a stock decrement for an invoice (at creation, and at settlement)
\* applies to every item with a non-null productId: two items naming the
\* same product lower it by the sum of their quantities, clamped at 0; an
\* item with a null productId lowers nothing; a product no item of the
\* invoice names keeps its stock.  The decrement is scoped to the tenant of
\* the request; a step that is no decrement leaves every stock unchanged.
C25_DecrementCoversCatalogItems ==
    [][IF serial'.invoices # serial.invoices
          THEN \A i \in invoices' \ invoices :
                   LoweredBy(i.userId, invoiceItems' \ invoiceItems)
          ELSE IF sales' \ sales # {}
          THEN \A s \in sales' \ sales : LoweredBy(s.userId, ItemsOf(s.invoiceId))
          ELSE products' = products]_vars

\* Two items of one invoice name product 1 with quantities 1 and 5, above
\* its stock: product 1 is at 0 and product 2 still has the stock it had.
C25_Witness ==
    /\ sales = {}
    /\ \E a, b \in invoiceItems :
          /\ a.invoiceId = b.invoiceId
          /\ a.productId = 1 /\ b.productId = 1
          /\ a.quantity = 1 /\ b.quantity = 5
    /\ \E p \in products : p.id = 1 /\ p.stock = 0 /\ stock0[1] = 3
    /\ \E p \in products : p.id = 2 /\ p.userId = "A" /\ p.stock = stock0[2]

C27_StockBeforeSales ==
    [][\A r \in Slots :
          (reqs[r].op = "updateInvoice" /\ reqs'[r] # reqs[r] /\ sales' \ sales # {})
              => reqs[r].k > Len(Catalog(reqs[r].items))]_vars

\* C28: the owning tenant (userId) of a client, a product or an invoice never
\* changes after creation: no step moves a stored row to another tenant.
C28_OwnerNeverChanges ==
    [][/\ \A i \in invoices, j \in invoices' : i.id = j.id => i.userId = j.userId
       /\ \A c \in clients, d \in clients' : c.id = d.id => c.userId = d.userId
       /\ \A p \in products, q \in products' : p.id = q.id => p.userId = q.userId]_vars

\* C29: in every reachable state each Sale row's userId is the owner of the
\* invoice it references and the owner of the product it references; an
\* invoice item naming another tenant's product has no Sale.
C29_SaleOfOwner ==
    \A s \in sales :
        /\ \A i \in invoices : i.id = s.invoiceId => i.userId = s.userId
        /\ \A p \in products : p.id = s.productId => p.userId = s.userId

====
